---------------------------- MODULE Spec2Model ----------------------------
(***************************************************************************)
(* Gravity War (src/main.rs): the per-frame systems update_targets,        *)
(* apply_forces, move_spaceship and spawn_by_click over the spaceship      *)
(* entities, with the frame loop that drives them.                         *)
(*                                                                         *)
(* Units.  Lengths are whole pixels.  Angles are milliradians.             *)
(* rotation_force is in hundredths, so torque and rotation_max are in      *)
(* 1e-5 (angle * rotation_force).  A Transform is its translation and the  *)
(* heading `up` its rotation gives (transform.up()); headings are the four *)
(* axis directions.  An f32 that may be NaN is a record [nan, v].          *)
(***************************************************************************)
EXTENDS Integers, Sequences, FiniteSets

\* ------------------------------------------------------------- bounds

\* Spaceships alive at once (clicks are no longer offered beyond it).
MaxShips == 3
\* Frames run.
MaxFrames == 4

\* --------------------------------------------------- program constants

\* spawn_by_click: event.position.x - 1280. / 2., event.position.y - 720. / 2.
SpawnWidth == 1280
SpawnHeight == 720
\* move_spaceship: 1000. * time.delta_seconds()
SpeedPerSecond == 1000
\* impl From<Faction> for Color: const COLORS: [Color; 5]
NumColors == 5
\* angle_between: pi and pi/2 in milliradians
PI == 3142
HALF_PI == 1571

\* ------------------------------------------------------ input domains

\* Window sizes the (resizable) primary window takes; it opens at the first.
DefaultWindow == <<1280, 720>>
WindowSizes == {<<1280, 720>>, <<1080, 720>>}
ArrowKeys == {"Up", "Down", "Left", "Right"}
\* What one frame's input can be: the arrow keys held down, the mouse
\* buttons just pressed, and the positions of the CursorMoved events of the
\* frame (window coordinates).
FrameInput(keys, buttons, events) ==
    [keyboard |-> keys, mouse |-> buttons, cursor_events |-> events]
FrameInputs ==
    {FrameInput({}, {}, <<>>),
     FrameInput({"Up"}, {}, <<<<740, 360>>>>),
     FrameInput({"Right"}, {}, <<>>),
     FrameInput({"Down", "Left"}, {"Left"}, <<>>),
     FrameInput(ArrowKeys, {"Right"}, <<>>),
     FrameInput({}, {"Left"}, <<<<640, 260>>>>),
     FrameInput({}, {"Right"}, <<<<640, 360>>, <<740, 360>>>>),
     FrameInput({"Up", "Down"}, {"Left", "Right"}, <<<<740, 360>>, <<640, 260>>>>)}
\* time.delta_seconds() in milliseconds
DeltaMillis == {100}
\* Configuration values the inspector sets: rotation_force (1/100),
\* propulsion_force, aim_distance, rotation_max (1e-5).
Configurations ==
    {[rotation_force |-> 2, propulsion_force |-> 50, aim_distance |-> 100,
      rotation_max |-> 5000],
     [rotation_force |-> -2, propulsion_force |-> 20, aim_distance |-> 50,
      rotation_max |-> 1000],
     [rotation_force |-> 2, propulsion_force |-> 50, aim_distance |-> 100,
      rotation_max |-> -1000]}

Systems == {"update_targets", "apply_forces", "move_spaceship", "spawn_by_click"}

VARIABLES
    ships,          \* the spaceship entities, in table (spawn) order
    configs,        \* the Configuration resource
    window,         \* the primary window's size
    keyboard,       \* Input<KeyCode>: arrow keys pressed this frame
    mouse,          \* Input<MouseButton>: buttons just pressed this frame
    cursor_events,  \* Events<CursorMoved> readable this frame
    commands,       \* Commands queued this frame (bundles to spawn)
    ran,            \* systems of the Update schedule that ran this frame
    phase,          \* "input", "update", "physics"
    frame,          \* frames completed
    panicked        \* a system panicked: the app has aborted

vars == <<ships, configs, window, keyboard, mouse, cursor_events,
          commands, ran, phase, frame, panicked>>

\* ------------------------------------------------------------ helpers

Abs(n) == IF n < 0 THEN -n ELSE n

Min2(a, b) == IF a <= b THEN a ELSE b

Max2(a, b) == IF a >= b THEN a ELSE b

SetMax(S) == CHOOSE m \in S : \A n \in S : n <= m

Last(s) == s[Len(s)]

RECURSIVE ISqrtFrom(_, _)
ISqrtFrom(n, x) ==
    LET y == (x + n \div x) \div 2
    IN  IF y >= x THEN x ELSE ISqrtFrom(n, y)

\* f32 sqrt, to the whole pixel below
ISqrt(n) == IF n = 0 THEN 0 ELSE ISqrtFrom(n, n)

\* Vec3::distance
Distance(p, q) ==
    ISqrt((p[1] - q[1]) * (p[1] - q[1]) + (p[2] - q[2]) * (p[2] - q[2])
          + (p[3] - q[3]) * (p[3] - q[3]))

F32(n) == [nan |-> FALSE, v |-> n]

NaN == [nan |-> TRUE, v |-> 0]


\* -------------------------------------------------- glam / f32 helpers

\* acos_approx of the cosine of the angle between two non-zero vectors, from
\* their dot product and the magnitude of their perp-dot product
\* (a polynomial approximation, as glam's is): 0 .. PI.
AcosApprox(dot, perp_abs) ==
    LET d == Abs(dot)
        lo == Min2(perp_abs, d)
        hi == Max2(perp_abs, d)
        at == (lo * (785 * hi + 273 * (hi - lo))) \div (hi * hi)
        acute == IF perp_abs <= d THEN at ELSE HALF_PI - at
    IN  IF dot >= 0 THEN acute ELSE PI - acute

\* Vec2::angle_between(a, b) = acos_approx(a.dot(b) / sqrt(|a|^2 |b|^2))
\*                             * signum(a.perp_dot(b)).
\* The values it can return: NaN for a zero vector (0/0); for antiparallel
\* vectors the perp-dot is a signed zero, whose sign signum returns.
AngleBetween_Swapped(a, b) ==
    LET dot == a[1] * b[1] + a[2] * b[2]
        perp == b[1] * a[2] - b[2] * a[1]
        m == AcosApprox(dot, Abs(perp))
    IN  IF a = <<0, 0>> \/ b = <<0, 0>> THEN {NaN}
        ELSE IF perp > 0 THEN {F32(m)}
        ELSE IF perp < 0 THEN {F32(-m)}
        ELSE {F32(m), F32(-m)}

AngleBetween(a, b) ==
    LET dot == a[1] * b[1] + a[2] * b[2]
        perp == a[1] * b[2] - a[2] * b[1]
        m == AcosApprox(dot, Abs(perp))
    IN  IF a = <<0, 0>> \/ b = <<0, 0>> THEN {NaN}
        ELSE IF perp > 0 THEN {F32(m)}
        ELSE IF perp < 0 THEN {F32(-m)}
        ELSE {F32(m), F32(-m)}

\* f32::clamp panics unless min <= max
ClampPanics(lo, hi) == ~(lo <= hi)

\* f32::clamp(self, min, max) for min <= max; NaN stays NaN
Clamp_NoLower(x, lo, hi) ==
    IF x.nan THEN NaN
    ELSE IF x.v > hi THEN F32(hi)
    ELSE x

Clamp(x, lo, hi) ==
    IF x.nan THEN NaN
    ELSE IF x.v < lo THEN F32(lo)
    ELSE IF x.v > hi THEN F32(hi)
    ELSE x

\* f32 * f32
Mul(x, k) == IF x.nan THEN NaN ELSE F32(x.v * k)

\* COLORS[value.0 as usize] panics out of bounds
ColorPanics(faction) == ~(faction < NumColors)

\* --------------------------------------------------------- components

\* Target::default()
DefaultTarget == [translation |-> <<0, 0, 0>>, distance |-> 0]

\* ExternalForce::default()
DefaultExternalForce == [force |-> <<0, 0>>, torque |-> F32(0)]

\* spaceship_bundle(faction, x, y): an entity is the record of its components
spaceship_bundle_NoMarker(faction, x, y) ==
    [faction |-> faction,
     target |-> DefaultTarget,
     ext_force |-> DefaultExternalForce,
     transform |-> [translation |-> <<x, y, 0>>, up |-> <<0, 1>>]]

spaceship_bundle(faction, x, y) ==
    [spaceship |-> TRUE,
     faction |-> faction,
     target |-> DefaultTarget,
     ext_force |-> DefaultExternalForce,
     transform |-> [translation |-> <<x, y, 0>>, up |-> <<0, 1>>]]

\* The entities the startup systems spawn (setup_graphics: the camera;
\* spawn_stars: the stars, one standing for the hundred): a Transform and no
\* component of the spaceships.
Scenery ==
    <<[camera |-> TRUE, transform |-> [translation |-> <<0, 0, 999>>, up |-> <<0, 1>>]],
      [mesh |-> TRUE, transform |-> [translation |-> <<100, 0, 0>>, up |-> <<0, 1>>]]>>

\* Every entity of the World: the scenery, then the spaceships `s`.
World(s) == Scenery \o s

\* ------------------------------------------------------------- queries

\* Query<(&Faction, &Transform, &mut Target)>
InTargets(e) == {"faction", "transform", "target"} \subseteq DOMAIN e

\* Query<(&Faction, &Target, &Transform, &mut ExternalForce), With<Spaceship>>
InSpaceshipForces(e) ==
    {"faction", "target", "transform", "ext_force", "spaceship"} \subseteq DOMAIN e

\* Query<(&mut Transform, &Faction), With<Spaceship>>
InSpaceships(e) == {"transform", "faction", "spaceship"} \subseteq DOMAIN e

\* ------------------------------------------------------ update_targets

\* itertools group_by: runs of consecutive entities with the same faction,
\* each mapped to its translations.
RECURSIVE GroupBy(_)
GroupBy(s) ==
    IF s = <<>> THEN <<>>
    ELSE LET h == Head(s)
             rest == GroupBy(Tail(s))
         IN  IF rest # <<>> /\ rest[1].key = h.faction
             THEN <<[key |-> h.faction,
                     group |-> <<h.transform.translation>> \o rest[1].group]>>
                  \o Tail(rest)
             ELSE <<[key |-> h.faction, group |-> <<h.transform.translation>>]>>
                  \o rest

\* collect::<HashMap<Faction, Vec<Vec3>>>(): a later pair with the same key
\* replaces the earlier one.
CollectHashMap(groups) ==
    [f \in {groups[i].key : i \in DOMAIN groups} |->
        groups[SetMax({i \in DOMAIN groups : groups[i].key = f})].group]

targets_by_faction(s) == CollectHashMap(GroupBy(SelectSeq(s, InTargets)))

\* The orders a HashMap's iter() may visit its keys in.
RECURSIVE Orders(_)
Orders(S) ==
    IF S = {} THEN {<<>>}
    ELSE UNION {{<<k>> \o o : o \in Orders(S \ {k})} : k \in S}

\* .filter(|(target_faction, _)| *target_faction != faction)
OtherFaction_NoFilter(target_faction, faction) == TRUE

OtherFaction(target_faction, faction) == target_faction # faction

RECURSIVE FlatMap(_, _, _)
\* .filter(..).flat_map(|(_, translations)| translations) over the map
\* visited in `order`
FlatMap(tbf, order, faction) ==
    IF order = <<>> THEN <<>>
    ELSE (IF OtherFaction(Head(order), faction) THEN tbf[Head(order)] ELSE <<>>)
         \o FlatMap(tbf, Tail(order), faction)

\* .map(|target| (target, target.distance(..))).min_by(total_cmp): the first
\* of the least elements, <<>> for None.
MinBy_FromOrigin(cands, from) ==
    IF cands = <<>> THEN <<>>
    ELSE LET d(i) == Distance(cands[i], <<0, 0, 0>>)
             best == CHOOSE i \in DOMAIN cands :
                        /\ \A j \in DOMAIN cands : d(i) <= d(j)
                        /\ \A j \in 1..(i - 1) : d(j) > d(i)
         IN  <<[translation |-> cands[best], distance |-> d(best)]>>

MinBy(cands, from) ==
    IF cands = <<>> THEN <<>>
    ELSE LET d(i) == Distance(cands[i], from)
             best == CHOOSE i \in DOMAIN cands :
                        /\ \A j \in DOMAIN cands : d(i) <= d(j)
                        /\ \A j \in 1..(i - 1) : d(j) > d(i)
         IN  <<[translation |-> cands[best], distance |-> d(best)]>>

\* The loop body of update_targets for one entity.
ResolveTarget_ResetForce(ship, tbf, order) ==
    LET found == MinBy(FlatMap(tbf, order, ship.faction),
                       ship.transform.translation)
    IN  IF found # <<>>
        THEN [ship EXCEPT !.target = found[1], !.ext_force = DefaultExternalForce]
        ELSE ship

ResolveTarget(ship, tbf, order) ==
    LET found == MinBy(FlatMap(tbf, order, ship.faction),
                       ship.transform.translation)
    IN  IF found # <<>> THEN [ship EXCEPT !.target = found[1]] ELSE ship

update_targets(s, order) ==
    LET tbf == targets_by_faction(s)
    IN  [i \in DOMAIN s |->
            IF InTargets(s[i]) THEN ResolveTarget(s[i], tbf, order) ELSE s[i]]

\* -------------------------------------------------------- apply_forces

\* The loop body of apply_forces for one spaceship, `angle` being what
\* angle_between returned.
SteerOne_ClampLengthMin(ship, cfg, angle) ==
    LET direction == ship.transform.up
        k == IF cfg.propulsion_force > 0
                  /\ cfg.propulsion_force < ship.target.distance
             THEN ship.target.distance
             ELSE cfg.propulsion_force
    IN  [ship EXCEPT
            !.ext_force =
                [torque |-> Clamp(Mul(angle, cfg.rotation_force),
                                  -cfg.rotation_max, cfg.rotation_max),
                 force |-> <<direction[1] * k, direction[2] * k>>]]

SteerOne(ship, cfg, angle) ==
    LET direction == ship.transform.up
    IN  [ship EXCEPT
            !.ext_force =
                [torque |-> Clamp(Mul(angle, cfg.rotation_force),
                                  -cfg.rotation_max, cfg.rotation_max),
                 force |-> <<direction[1] * cfg.propulsion_force,
                             direction[2] * cfg.propulsion_force>>]]

\* target.translation - transform.translation, truncated to Vec2
TargetDirection(ship) ==
    <<ship.target.translation[1] - ship.transform.translation[1],
      ship.target.translation[2] - ship.transform.translation[2]>>

\* The results of the loop over the spaceships (one per choice of the
\* angles angle_between can return).
RECURSIVE apply_forces(_, _)
apply_forces(s, cfg) ==
    IF s = <<>> THEN {<<>>}
    ELSE {<<h>> \o t :
            h \in IF InSpaceshipForces(Head(s))
                  THEN {SteerOne(Head(s), cfg, a) :
                          a \in AngleBetween(Head(s).transform.up,
                                             TargetDirection(Head(s)))}
                  ELSE {Head(s)},
            t \in apply_forces(Tail(s), cfg)}

\* ------------------------------------------------------ move_spaceship

\* if *faction != Faction(1) { continue; }
DirectControlled_Any(faction) == TRUE

DirectControlled(faction) == faction = 1

\* The loop body of move_spaceship for one spaceship.
MoveOne(ship, keys, speed) ==
    IF ~DirectControlled(ship.faction) THEN ship
    ELSE LET t0 == ship.transform.translation
             t1 == IF "Up" \in keys THEN <<t0[1], t0[2] + speed, t0[3]>> ELSE t0
             t2 == IF "Down" \in keys THEN <<t1[1], t1[2] - speed, t1[3]>> ELSE t1
             t3 == IF "Left" \in keys THEN <<t2[1] - speed, t2[2], t2[3]>> ELSE t2
             t4 == IF "Right" \in keys THEN <<t3[1] + speed, t3[2], t3[3]>> ELSE t3
         IN  [ship EXCEPT !.transform.translation = t4]

move_spaceship(s, keys, delta_ms) ==
    LET speed == (SpeedPerSecond * delta_ms) \div 1000
    IN  [i \in DOMAIN s |->
            IF InSpaceships(s[i]) THEN MoveOne(s[i], keys, speed) ELSE s[i]]

\* ------------------------------------------------------ spawn_by_click

\* faction_to_spawn: <<>> for None
faction_to_spawn_Big(just_pressed) ==
    IF "Left" \in just_pressed THEN <<1>>
    ELSE IF "Right" \in just_pressed THEN <<NumColors>>
    ELSE <<>>

faction_to_spawn(just_pressed) ==
    IF "Left" \in just_pressed THEN <<1>>
    ELSE IF "Right" \in just_pressed THEN <<2>>
    ELSE <<>>

\* cursor_moved_events.iter().last(): <<>> for None
LastEvent(events) == IF events = <<>> THEN <<>> ELSE <<Last(events)>>

\* The bundles spawn_by_click queues.
spawn_by_click(just_pressed, events) ==
    LET f == faction_to_spawn(just_pressed)
        e == LastEvent(events)
    IN  IF f # <<>> /\ e # <<>>
        THEN <<spaceship_bundle(f[1], e[1][1] - SpawnWidth \div 2,
                                e[1][2] - SpawnHeight \div 2)>>
        ELSE <<>>

\* --------------------------------------------------------------- state

\* impl Default for Configuration
DefaultConfiguration ==
    [rotation_force |-> 2, propulsion_force |-> 50, aim_distance |-> 100,
     rotation_max |-> 5000]

Init ==
    /\ ships = <<>>
    /\ configs = DefaultConfiguration
    /\ window = DefaultWindow
    /\ keyboard = {}
    /\ mouse = {}
    /\ cursor_events = <<>>
    /\ commands = <<>>
    /\ ran = {}
    /\ phase = "input"
    /\ frame = 0
    /\ panicked = FALSE

\* The window is resized between frames.
ResizeWindow ==
    /\ ~panicked /\ phase = "input" /\ frame < MaxFrames
    /\ \E w \in WindowSizes \ {window} : window' = w
    /\ UNCHANGED <<ships, configs, keyboard, mouse, cursor_events,
                   commands, ran, phase, frame, panicked>>

\* ResourceInspectorPlugin::<Configuration>: the inspector edits the resource.
EditConfiguration ==
    /\ ~panicked /\ phase = "input" /\ frame < MaxFrames
    /\ \E c \in Configurations \ {configs} : configs' = c
    /\ UNCHANGED <<ships, window, keyboard, mouse, cursor_events,
                   commands, ran, phase, frame, panicked>>

\* The frame's input arrives (a click only while there is room for another
\* spaceship); then the Update schedule starts.
PollInput ==
    /\ ~panicked /\ phase = "input" /\ frame < MaxFrames
    /\ \E in \in FrameInputs :
          /\ in.mouse # {} => Len(ships) < MaxShips
          /\ keyboard' = in.keyboard
          /\ mouse' = in.mouse
          /\ cursor_events' = in.cursor_events
    /\ ran' = {}
    /\ phase' = "update"
    /\ UNCHANGED <<ships, configs, window, commands, frame, panicked>>

Runnable(system) == ~panicked /\ phase = "update" /\ system \notin ran

UpdateTargets ==
    /\ Runnable("update_targets")
    /\ \E order \in Orders(DOMAIN targets_by_faction(ships)) :
          ships' = update_targets(ships, order)
    /\ ran' = ran \cup {"update_targets"}
    /\ UNCHANGED <<configs, window, keyboard, mouse, cursor_events,
                   commands, phase, frame, panicked>>

\* apply_forces.after(update_targets)
ApplyForces ==
    /\ Runnable("apply_forces")
    /\ "update_targets" \in ran
    /\ IF /\ \E i \in DOMAIN ships : InSpaceshipForces(ships[i])
          /\ ClampPanics(-configs.rotation_max, configs.rotation_max)
       THEN panicked' = TRUE /\ ships' = ships
       ELSE LET bad == {i \in DOMAIN ships : /\ InSpaceshipForces(ships[i])
                                              /\ ColorPanics(ships[i].faction)}
            IN  \E s \in apply_forces(ships, configs) :
                  /\ panicked' = (bad # {})
                  /\ ships' = [i \in DOMAIN ships |->
                                 IF \A b \in bad : i <= b THEN s[i] ELSE ships[i]]
    /\ ran' = ran \cup {"apply_forces"}
    /\ UNCHANGED <<configs, window, keyboard, mouse, cursor_events,
                   commands, phase, frame>>

MoveSpaceship ==
    /\ Runnable("move_spaceship")
    /\ \E delta_ms \in DeltaMillis :
          ships' = move_spaceship(ships, keyboard, delta_ms)
    /\ ran' = ran \cup {"move_spaceship"}
    /\ UNCHANGED <<configs, window, keyboard, mouse, cursor_events,
                   commands, phase, frame, panicked>>

SpawnByClick ==
    /\ Runnable("spawn_by_click")
    /\ commands' = commands \o spawn_by_click(mouse, cursor_events)
    /\ ran' = ran \cup {"spawn_by_click"}
    /\ UNCHANGED <<ships, configs, window, keyboard, mouse, cursor_events, phase, frame, panicked>>

\* apply_system_buffers at the end of the schedule: the queued bundles
\* become entities, after the existing ones.  Nothing reads the frame's
\* input after this; it is dropped (Input::clear, Events::update).
ApplyCommands ==
    /\ ~panicked /\ phase = "update" /\ ran = Systems
    /\ ships' = ships \o commands
    /\ commands' = <<>>
    /\ keyboard' = {} /\ mouse' = {} /\ cursor_events' = <<>>
    /\ ran' = {}
    /\ phase' = "physics"
    /\ UNCHANGED <<configs, window, frame, panicked>>

\* RapierPhysicsPlugin: the rigid-body step writes the Transforms back.  Of
\* what the integrator does the model keeps, on its grid: a body with a force
\* advances 100 pixels along it, and a body with a torque turns a quarter turn
\* the way the torque points (a NaN torque turns nothing).
Integrate(ship) ==
    LET f == ship.ext_force.force
        q == ship.ext_force.torque
        sg(n) == IF n > 0 THEN 1 ELSE IF n < 0 THEN -1 ELSE 0
        t == ship.transform.translation
        u == ship.transform.up
    IN  [ship EXCEPT
            !.transform.translation =
                <<t[1] + 100 * sg(f[1]), t[2] + 100 * sg(f[2]), t[3]>>,
            !.transform.up =
                IF q.nan \/ q.v = 0 THEN u
                ELSE IF q.v > 0 THEN <<-u[2], u[1]>>
                ELSE <<u[2], -u[1]>>]

PhysicsStep ==
    /\ ~panicked /\ phase = "physics"
    /\ ships' = [i \in DOMAIN ships |-> Integrate(ships[i])]
    /\ phase' = "input"
    /\ frame' = frame + 1
    /\ UNCHANGED <<configs, window, keyboard, mouse, cursor_events, commands,
                   ran, panicked>>

Next ==
    \/ ResizeWindow
    \/ EditConfiguration
    \/ PollInput
    \/ UpdateTargets
    \/ ApplyForces
    \/ MoveSpaceship
    \/ SpawnByClick
    \/ ApplyCommands
    \/ PhysicsStep

Spec == Init /\ [][Next]_vars

\* ------------------------------------------------------------- claims

\* The step in which `system` runs in the current frame.
Stepped(system) == system \notin ran /\ system \in ran'

\* The factions present among the entities s.
Factions(s) == {s[i].faction : i \in DOMAIN s}

\* The entities of s that are of another faction than entity i.
Enemies(s, i) == {j \in DOMAIN s : s[j].faction # s[i].faction}

\* Entity i's Target is an entity of another faction at the least distance
\* among all entities of another faction, with that distance.
TargetsNearestEnemy(s, i) ==
    \E j \in Enemies(s, i) :
        /\ s[i].target.translation = s[j].transform.translation
        /\ s[i].target.distance =
              Distance(s[j].transform.translation, s[i].transform.translation)
        /\ \A k \in Enemies(s, i) :
              Distance(s[k].transform.translation, s[i].transform.translation)
                 >= s[i].target.distance

\* C1: after update_targets runs in a frame with at least two factions
\* present, every entity's Target is the position of, and the distance to, a
\* nearest entity among ALL entities of another faction, whatever the order
\* of the entities.
C1_NearestTarget ==
    [][(Stepped("update_targets") /\ Cardinality(Factions(ships)) >= 2)
         => \A i \in DOMAIN ships' : TargetsNearestEnemy(ships', i)]_vars

\* C2: apply_forces leaves the ExternalForce of an entity that has no entity
\* of another faction to target exactly as it was.
C2_NoTargetNoForceUpdate ==
    [][Stepped("apply_forces")
         => \A i \in DOMAIN ships :
               Enemies(ships, i) = {} => ships'[i].ext_force = ships[i].ext_force]_vars

\* C3: when every entity present has the same faction, update_targets
\* leaves each entity's Target (translation and distance) as it was.
C3_NoTargetStability ==
    [][(Stepped("update_targets") /\ Cardinality(Factions(ships)) <= 1)
         => /\ DOMAIN ships' = DOMAIN ships
            /\ \A i \in DOMAIN ships : ships'[i].target = ships[i].target]_vars

\* C3 witness: update_targets has run over two or more entities of one
\* faction, one of them away from the default Target's position.
C3_Witness ==
    /\ phase = "update" /\ "update_targets" \in ran
    /\ Len(ships) >= 2 /\ Cardinality(Factions(ships)) = 1
    /\ \E i \in DOMAIN ships :
          ships[i].transform.translation # DefaultTarget.translation

\* How many entries of the sequence q equal v.
Count(q, v) == Cardinality({n \in DOMAIN q : q[n] = v})

\* C4: the grouping update_targets builds holds the position of every entity
\* exactly once, in the bucket of the entity's faction, and nothing else.
C4_GroupingIsPartition ==
    Runnable("update_targets") =>
        LET tbf == targets_by_faction(ships)
        IN  /\ DOMAIN tbf = Factions(ships)
            /\ \A f \in DOMAIN tbf :
                 \A i \in DOMAIN ships :
                    Count(tbf[f], ships[i].transform.translation)
                      = Cardinality({j \in DOMAIN ships :
                            /\ ships[j].faction = f
                            /\ ships[j].transform.translation
                                 = ships[i].transform.translation})

\* How many queued bundles are of `faction`.
Queued(faction) ==
    Cardinality({n \in DOMAIN commands : commands[n].faction = faction})

\* C5: in a frame in which the primary button is just pressed exactly one
\* entity of faction 1 is created, and in a frame in which the secondary
\* button is just pressed exactly one of faction 2, with or without a
\* CursorMoved event in that frame, and when both are pressed.
C5_SpawnOnClick ==
    (phase = "update" /\ "spawn_by_click" \in ran) =>
        /\ "Left" \in mouse => Queued(1) = 1
        /\ "Right" \in mouse => Queued(2) = 1

\* C6: in every frame update_targets has completed before any of
\* apply_forces, move_spaceship and spawn_by_click starts.
C6_UpdateTargetsFirst ==
    (phase = "update" /\ ran # {}) => "update_targets" \in ran

C8_NoPanic == ~panicked

\* C9: a spawned entity is placed at (x - W/2, y - H/2, 0) for the pointer
\* position (x, y) and the current window size (W, H).
C9_SpawnTranslation ==
    (phase = "update" /\ "spawn_by_click" \in ran) =>
        \A n \in DOMAIN commands :
            /\ cursor_events # <<>>
            /\ commands[n].transform.translation =
                  <<Last(cursor_events)[1] - window[1] \div 2,
                    Last(cursor_events)[2] - window[2] \div 2, 0>>

\* C10: move_spaceship leaves every entity whose faction is not 1 unchanged,
\* and changes nothing but the translation of the entities of faction 1.
C10_DirectControlExclusive ==
    [][Stepped("move_spaceship")
         => /\ DOMAIN ships' = DOMAIN ships
            /\ \A i \in DOMAIN ships :
                 /\ ships[i].faction # 1 => ships'[i] = ships[i]
                 /\ ships'[i] = [ships[i] EXCEPT !.transform.translation =
                                    ships'[i].transform.translation]]_vars

\* C10 witness: move_spaceship has run with the Up key held while entities
\* of faction 1 and of faction 2 exist.
C10_Witness ==
    /\ phase = "update" /\ "move_spaceship" \in ran
    /\ keyboard = {"Up"}
    /\ {1, 2} \subseteq Factions(ships)

\* C11: the force apply_forces writes for a spaceship is its forward heading
\* scaled by propulsion_force, whatever its Target: two spaceships with the
\* same heading get the same force.
C11_PropulsionUngated ==
    (phase = "update" /\ "apply_forces" \in ran /\ ~panicked) =>
        /\ \A i \in DOMAIN ships :
              ships[i].ext_force.force =
                 <<ships[i].transform.up[1] * configs.propulsion_force,
                   ships[i].transform.up[2] * configs.propulsion_force>>
        /\ \A i, j \in DOMAIN ships :
              ships[i].transform.up = ships[j].transform.up
                 => ships[i].ext_force.force = ships[j].ext_force.force

\* C11 witness: apply_forces has run over two spaceships with the same
\* heading, one nearer its Target than propulsion_force and one farther,
\* one with its Target on the heading's axis and one off it.
C11_Witness ==
    /\ phase = "update" /\ "apply_forces" \in ran /\ ~panicked
    /\ configs.propulsion_force > 0
    /\ \E i, j \in DOMAIN ships :
          /\ ships[i].transform.up = ships[j].transform.up
          /\ ships[i].target.distance < configs.propulsion_force
          /\ ships[j].target.distance > configs.propulsion_force
          /\ ships[i].ext_force.torque # ships[j].ext_force.torque

\* The scenario of C12 after update_targets and apply_forces ran over it:
\* exactly two entities, e1 of faction 1 at (0,0) and e2 of faction 2 at
\* (100,0), both facing +Y, default Configuration, nothing moved in between.
C12_Scenario(e1, e2) ==
    /\ phase = "update" /\ {"update_targets", "apply_forces"} \subseteq ran
    /\ "move_spaceship" \notin ran
    /\ configs = DefaultConfiguration
    /\ DOMAIN ships = {e1, e2}
    /\ ships[e1].faction = 1 /\ ships[e2].faction = 2
    /\ ships[e1].transform = [translation |-> <<0, 0, 0>>, up |-> <<0, 1>>]
    /\ ships[e2].transform = [translation |-> <<100, 0, 0>>, up |-> <<0, 1>>]

\* C12: in that scenario the entity at (0,0) has Target (100,0) at distance
\* 100, a non-zero torque within [-rotation_max, rotation_max] that turns
\* the heading from +Y toward +X (clockwise: negative), and the force
\* propulsion_force along +Y.
C12_EndToEnd ==
    \A e1, e2 \in DOMAIN ships :
        C12_Scenario(e1, e2) =>
            /\ ships[e1].target = [translation |-> <<100, 0, 0>>, distance |-> 100]
            /\ ~ships[e1].ext_force.torque.nan
            /\ ships[e1].ext_force.torque.v < 0
            /\ -configs.rotation_max <= ships[e1].ext_force.torque.v
            /\ ships[e1].ext_force.force = <<0, configs.propulsion_force>>

\* C12 witness: the scenario is reached.
C12_Witness == \E e1, e2 \in DOMAIN ships : C12_Scenario(e1, e2)

\* C13: when update_targets runs in a frame, every entity that has an entity
\* of another faction gets a Target whose translation is the position, in
\* that frame, of some entity of another faction, and whose distance is the
\* distance from the entity's own position to it, whatever the order of the
\* entities and of the map.
C13_TargetFreshness ==
    [][Stepped("update_targets")
         => \A i \in DOMAIN ships :
               Enemies(ships, i) # {} =>
                  \E j \in Enemies(ships, i) :
                     /\ ships'[i].target.translation = ships[j].transform.translation
                     /\ ships'[i].target.distance =
                           Distance(ships[j].transform.translation,
                                    ships[i].transform.translation)]_vars

\* C13 witness: update_targets has run over three entities whose factions
\* are not contiguous in table order, none has moved since, and one of them
\* holds a Target that is an entity of the other faction but not a nearest.
C13_Witness ==
    /\ phase = "update" /\ "update_targets" \in ran /\ "move_spaceship" \notin ran
    /\ Len(ships) >= 3
    /\ ships[1].faction # ships[2].faction /\ ships[3].faction = ships[1].faction
    /\ \E i \in DOMAIN ships :
          /\ ~TargetsNearestEnemy(ships, i)
          /\ \E j \in Enemies(ships, i) :
                /\ ships[i].target.translation = ships[j].transform.translation
                /\ ships[i].target.distance =
                      Distance(ships[j].transform.translation,
                               ships[i].transform.translation)

\* C14: every entity, spawned or queued to spawn, has faction 1 or 2, inside
\* the palette of NumColors colours, so a panic never comes from the colour
\* lookup of apply_forces (only from the clamp).
C14_FactionInPalette ==
    /\ \A i \in DOMAIN ships :
          ships[i].faction \in {1, 2} /\ ~ColorPanics(ships[i].faction)
    /\ \A n \in DOMAIN commands :
          commands[n].faction \in {1, 2} /\ ~ColorPanics(commands[n].faction)
    /\ panicked => ClampPanics(-configs.rotation_max, configs.rotation_max)

\* C14 witness: apply_forces has run, without panicking, over three or more
\* entities of both factions.
C14_Witness ==
    /\ phase = "update" /\ "apply_forces" \in ran /\ ~panicked
    /\ Len(ships) >= 3 /\ Factions(ships) = {1, 2}

\* The components of a spaceship.
SpaceshipComponents == {"spaceship", "faction", "target", "ext_force", "transform"}

\* C15: every bundle spawn_by_click queues has the Spaceship marker, the
\* Faction of the button, a Transform at the position translated from the
\* pointer's, the Target (0,0,0) at distance 0 and a zero ExternalForce; and
\* in every state the entities update_targets processes, the entities
\* apply_forces processes and the entities that have a Faction are the same.
C15_SpawnInitialisesFields ==
    /\ (phase = "update" /\ "spawn_by_click" \in ran) =>
          \A n \in DOMAIN commands :
             /\ DOMAIN commands[n] = SpaceshipComponents
             /\ commands[n].spaceship
             /\ <<commands[n].faction>> = faction_to_spawn(mouse)
             /\ cursor_events # <<>>
             /\ commands[n].transform.translation =
                   <<Last(cursor_events)[1] - SpawnWidth \div 2,
                     Last(cursor_events)[2] - SpawnHeight \div 2, 0>>
             /\ commands[n].target = [translation |-> <<0, 0, 0>>, distance |-> 0]
             /\ commands[n].ext_force = [force |-> <<0, 0>>, torque |-> F32(0)]
    /\ LET w == World(ships)
           bearing == {i \in DOMAIN w : "faction" \in DOMAIN w[i]}
       IN  /\ {i \in DOMAIN w : InTargets(w[i])} = bearing
           /\ {i \in DOMAIN w : InSpaceshipForces(w[i])} = bearing

\* C15 witness: spawn_by_click has queued a bundle in a frame in which
\* update_targets and apply_forces ran over entities spawned earlier.
C15_Witness ==
    /\ phase = "update" /\ {"update_targets", "apply_forces", "spawn_by_click"} \subseteq ran
    /\ ~panicked
    /\ commands # <<>>
    /\ Len(ships) >= 2

\* C16: update_targets creates and removes no entity, changes nothing of an
\* entity but its Target, changes nothing else of the state, and a Target it
\* changes is the position of an entity as it was when the call started and
\* the distance to it from the entity's position at that time.
C16_UpdateTargetsOnlyTargets ==
    [][Stepped("update_targets")
         => /\ DOMAIN ships' = DOMAIN ships
            /\ \A i \in DOMAIN ships :
                  /\ ships'[i] = [ships[i] EXCEPT !.target = ships'[i].target]
                  /\ ships'[i].target # ships[i].target =>
                        \E j \in DOMAIN ships :
                           /\ ships'[i].target.translation
                                 = ships[j].transform.translation
                           /\ ships'[i].target.distance =
                                 Distance(ships[j].transform.translation,
                                          ships[i].transform.translation)
            /\ UNCHANGED <<configs, window, keyboard, mouse, cursor_events,
                           commands, phase, frame, panicked>>]_vars

\* C16 witness: update_targets has run, before apply_forces in its frame,
\* over an entity that carries the force of an earlier frame and has been
\* given a Target by the call.
C16_Witness ==
    /\ phase = "update" /\ "update_targets" \in ran /\ "apply_forces" \notin ran
    /\ \E i \in DOMAIN ships :
          /\ ships[i].ext_force # DefaultExternalForce
          /\ ships[i].target # DefaultTarget
          /\ Enemies(ships, i) # {}

=============================================================================
